---- MODULE Spec2Model ----
(***************************************************************************)
(* A model of the lead engine of main.py: the daily run (run_daily), the   *)
(* lead store (save_leads), the criteria store, scoring, qualification,    *)
(* URL normalisation, city rotation and the tool-call webhook.             *)
(*                                                                         *)
(* Text values (names, URLs, snippets, keywords) are sequences of          *)
(* one-character strings, so that substring tests, case folding and the    *)
(* regular expressions of the source are computed character by character.  *)
(***************************************************************************)
EXTENDS Integers, Sequences, FiniteSets, TLC

\* ------------------------------------------------------------------------
\* Text
\* ------------------------------------------------------------------------

\* Python's None, as a value no text can equal.
None == <<"None">>

\* Python truthiness of an optional text: None and "" are falsy.
Truthy(x) == x # None /\ x # <<>>

\* `x or ""`.
OrEmpty(x) == IF Truthy(x) THEN x ELSE <<>>

LowerSeq == <<"a", "b", "c", "d", "e", "f", "g", "h", "i", "j", "k", "l", "m",
              "n", "o", "p", "q", "r", "s", "t", "u", "v", "w", "x", "y", "z">>

UpperSeq == <<"A", "B", "C", "D", "E", "F", "G", "H", "I", "J", "K", "L", "M",
              "N", "O", "P", "Q", "R", "S", "T", "U", "V", "W", "X", "Y", "Z">>

Letters == {LowerSeq[i] : i \in DOMAIN LowerSeq} \cup {UpperSeq[i] : i \in DOMAIN UpperSeq}

Digits == {"0", "1", "2", "3", "4", "5", "6", "7", "8", "9"}

WhiteSpace == {" ", "\t", "\n", "\r"}

\* Every character the model's texts are written in.
Alphabet == Letters \cup Digits \cup WhiteSpace \cup
            {".", "_", "%", "+", "-", "@", "#", "?", "/", ":", "=", "(", ")",
             "'", "\"", "<", ">", "&"}

LowerChar(c) ==
    IF \E i \in DOMAIN UpperSeq : UpperSeq[i] = c
    THEN LowerSeq[CHOOSE i \in DOMAIN UpperSeq : UpperSeq[i] = c]
    ELSE c

\* str.lower()
Lower(s) == [i \in 1..Len(s) |-> LowerChar(s[i])]

\* `sub in s`
IsSubstring(sub, s) ==
    \E i \in 0..(Len(s) - Len(sub)) : SubSeq(s, i + 1, i + Len(sub)) = sub

\* s.startswith(p)
StartsWith(s, p) == Len(s) >= Len(p) /\ SubSeq(s, 1, Len(p)) = p

\* str.strip()
Strip(s) ==
    IF \A i \in 1..Len(s) : s[i] \in WhiteSpace THEN <<>>
    ELSE LET a == CHOOSE i \in 1..Len(s) :
                     s[i] \notin WhiteSpace /\ \A j \in 1..(i - 1) : s[j] \in WhiteSpace
             b == CHOOSE i \in 1..Len(s) :
                     s[i] \notin WhiteSpace /\ \A j \in (i + 1)..Len(s) : s[j] \in WhiteSpace
         IN SubSeq(s, a, b)

\* s.rstrip("/")
RStripSlash(s) ==
    IF \A i \in 1..Len(s) : s[i] = "/" THEN <<>>
    ELSE LET b == CHOOSE i \in 1..Len(s) :
                     s[i] # "/" /\ \A j \in (i + 1)..Len(s) : s[j] = "/"
         IN SubSeq(s, 1, b)

\* " ".join(parts)
RECURSIVE JoinSpace(_)
JoinSpace(parts) ==
    IF parts = <<>> THEN <<>>
    ELSE IF Len(parts) = 1 THEN parts[1]
    ELSE parts[1] \o <<" ">> \o JoinSpace(Tail(parts))

\* ------------------------------------------------------------------------
\* Regular expressions (re.search with greedy quantifiers and backtracking)
\* ------------------------------------------------------------------------
\* A pattern is a sequence of elements [cls, min, max]: between min and max
\* characters of the class cls, as many as possible first; max = -1 is
\* unbounded.  MatchHere gives the position after the match of pat at pos, or
\* 0 when pat does not match there.

RECURSIVE RunLen(_, _, _, _)
RunLen(cls, text, pos, max) ==
    IF max = 0 \/ pos > Len(text) \/ text[pos] \notin cls THEN 0
    ELSE 1 + RunLen(cls, text, pos + 1, IF max = -1 THEN -1 ELSE max - 1)

RECURSIVE MatchHere(_, _, _)
RECURSIVE TryCount(_, _, _, _)
MatchHere(pat, text, pos) ==
    IF pat = <<>> THEN pos
    ELSE TryCount(pat, text, pos, RunLen(Head(pat).cls, text, pos, Head(pat).max))

TryCount(pat, text, pos, n) ==
    IF n < Head(pat).min THEN 0
    ELSE LET r == MatchHere(Tail(pat), text, pos + n)
         IN IF r # 0 THEN r ELSE TryCount(pat, text, pos, n - 1)

\* The match of the first alternative of alts that matches at pos.
RECURSIVE MatchAlts(_, _, _)
MatchAlts(alts, text, pos) ==
    IF alts = <<>> THEN 0
    ELSE LET r == MatchHere(Head(alts), text, pos)
         IN IF r # 0 THEN r ELSE MatchAlts(Tail(alts), text, pos)

\* pattern.search(text): the leftmost match, as [start, end) positions, or
\* <<0, 0>> when there is none.
RECURSIVE SearchFrom(_, _, _)
SearchFrom(alts, text, pos) ==
    IF pos > Len(text) + 1 THEN <<0, 0>>
    ELSE LET r == MatchAlts(alts, text, pos)
         IN IF r # 0 THEN <<pos, r>> ELSE SearchFrom(alts, text, pos + 1)

Search(alts, text) == SearchFrom(alts, text, 1)

One(cls) == [cls |-> cls, min |-> 1, max |-> 1]
Opt(cls) == [cls |-> cls, min |-> 0, max |-> 1]
Plus(cls) == [cls |-> cls, min |-> 1, max |-> -1]
Star(cls) == [cls |-> cls, min |-> 0, max |-> -1]
Rep(cls, n) == [cls |-> cls, min |-> n, max |-> n]
AtLeast(cls, n) == [cls |-> cls, min |-> n, max |-> -1]

\* A literal under re.IGNORECASE.
LitI(s) == [i \in 1..Len(s) |-> One({c \in Letters \cup {s[i]} : LowerChar(c) = LowerChar(s[i])})]

\* [A-Z0-9._%+-]+@[A-Z0-9.-]+\.[A-Z]{2,} with re.IGNORECASE
EMAIL_RE ==
    << << Plus(Letters \cup Digits \cup {".", "_", "%", "+", "-"}),
          One({"@"}),
          Plus(Letters \cup Digits \cup {".", "-"}),
          One({"."}),
          AtLeast(Letters, 2) >> >>

PhoneSep == WhiteSpace \cup {"-", "."}

PhoneBody ==
    << Opt({"("}), Rep(Digits, 3), Opt({")"}), Opt(PhoneSep),
       Rep(Digits, 3), Opt(PhoneSep), Rep(Digits, 4) >>

\* (\+?1[\s\-\.]?)?\(?\d{3}\)?[\s\-\.]?\d{3}[\s\-\.]?\d{4}: the optional
\* group is tried first, then the pattern without it.
PHONE_RE ==
    << << Opt({"+"}), One({"1"}), Opt(PhoneSep) >> \o PhoneBody, PhoneBody >>

Quotes == {"\"", "'"}

\* href=["\']([^"\']*contact[^"\']*)["\'] with re.IGNORECASE
HREF_RE ==
    << LitI(<<"h", "r", "e", "f", "=">>) \o << One(Quotes), Star(Alphabet \ Quotes) >>
       \o LitI(<<"c", "o", "n", "t", "a", "c", "t">>)
       \o << Star(Alphabet \ Quotes), One(Quotes) >> >>

extract_email(text) ==
    IF ~Truthy(text) THEN None
    ELSE LET m == Search(EMAIL_RE, text)
         IN IF m[1] = 0 THEN None ELSE SubSeq(text, m[1], m[2] - 1)

extract_phone(text) ==
    IF ~Truthy(text) THEN None
    ELSE LET m == Search(PHONE_RE, text)
         IN IF m[1] = 0 THEN None ELSE SubSeq(text, m[1], m[2] - 1)

\* re.sub(ch + ".*$", "", url): "." does not match a newline and "$" matches
\* at the end or just before a final newline, so the cut starts at the first
\* ch whose rest has no newline but possibly a last one, which is kept.
RegexCut(url, ch) ==
    LET ok(i) == /\ url[i] = ch
                 /\ \A j \in (i + 1)..(Len(url) - 1) : url[j] # "\n"
    IN IF \E i \in 1..Len(url) : ok(i)
       THEN LET i == CHOOSE k \in 1..Len(url) : ok(k) /\ \A j \in 1..(k - 1) : ~ok(j)
            IN SubSeq(url, 1, i - 1) \o
               (IF i < Len(url) /\ url[Len(url)] = "\n" THEN <<"\n">> ELSE <<>>)
       ELSE url

\* normalize_url without the lower-casing.
normalize_url_NoLower(url) ==
    IF ~Truthy(url) THEN <<>>
    ELSE RegexCut(RegexCut(Strip(url), "#"), "?")

normalize_url(url) ==
    IF ~Truthy(url) THEN <<>>
    ELSE Lower(RegexCut(RegexCut(Strip(url), "#"), "?"))

\* s[:n]
Take(s, n) == SubSeq(s, 1, IF Len(s) < n THEN Len(s) ELSE n)

\* ------------------------------------------------------------------------
\* Configuration
\* ------------------------------------------------------------------------
DEFAULT_OWNER_EMAIL ==
    <<"d", "e", "m", "o", "n", "t", "e", "z", "@", "l", "a", "s", "s", "i", "t",
      "e", "r", "l", "l", "c", ".", "s", "e", "r", "v", "i", "c", "e", "s">>

DEFAULT_MIN_SCORE == 70

HTML_LIMIT == 200000

CITY_SEEDS ==
    <<"Phoenix AZ", "Dallas TX", "Houston TX", "Atlanta GA", "Charlotte NC",
      "Denver CO", "Las Vegas NV", "Orlando FL", "Tampa FL", "Nashville TN",
      "Columbus OH", "Indianapolis IN", "Kansas City MO", "St. Louis MO",
      "Chicago IL", "Minneapolis MN", "Seattle WA", "Portland OR",
      "San Diego CA", "Los Angeles CA", "San Jose CA", "San Francisco CA",
      "New York NY", "Philadelphia PA", "Boston MA", "Washington DC",
      "Detroit MI", "Cleveland OH", "Pittsburgh PA", "Baltimore MD">>

DefaultNiches == <<"hvac", "dispensary", "gym">>

DefaultQuotas == [hvac |-> 10, dispensary |-> 5, gym |-> 5]

DefaultGeo == "United States (nationwide)"

\* The record get_criteria returns when the criteria table is empty.
DefaultCriteria ==
    [ownerEmail |-> DEFAULT_OWNER_EMAIL,
     niches |-> DefaultNiches,
     dailyQuotas |-> DefaultQuotas,
     geo |-> DefaultGeo,
     mustHave |-> <<>>,
     avoid |-> <<>>,
     prioritySignals |-> <<>>,
     minScore |-> DEFAULT_MIN_SCORE]

\* d.get(k) or default, for a text, list or dict field (falsy when empty).
GetOr(d, k, default) ==
    IF k \in DOMAIN d /\ d[k] # <<>> THEN d[k] ELSE default

\* int(d.get(k) or default), for an integer field (0 is falsy).
IntOr(d, k, default) ==
    IF k \in DOMAIN d /\ d[k] # 0 THEN d[k] ELSE default

\* ------------------------------------------------------------------------
\* Queries and rotation
\* ------------------------------------------------------------------------
\* A query f"{a} {city} {b}" is kept as its three parts.
build_queries(niche, city) ==
    IF niche = "hvac" THEN
        << <<"HVAC contractor", city, "contact">>,
           <<"air conditioning repair", city, "contact">>,
           <<"heating and cooling company", city, "contact">>,
           <<"HVAC company", city, "services contact">> >>
    ELSE IF niche = "dispensary" THEN
        << <<"cannabis dispensary", city, "contact">>,
           <<"dispensary", city, "contact us">>,
           <<"marijuana dispensary", city, "website contact">> >>
    ELSE IF niche = "gym" THEN
        << <<"gym", city, "contact">>,
           <<"fitness center", city, "contact us">>,
           <<"strength and conditioning gym", city, "contact">> >>
    ELSE << <<niche, city, "contact">> >>

\* A rotation to the right: seeds[-k:] + seeds[:-k].
Rotate_Right(seeds, day_index) ==
    LET k == day_index % Len(seeds)
    IN SubSeq(seeds, Len(seeds) - k + 1, Len(seeds)) \o SubSeq(seeds, 1, Len(seeds) - k)

\* seeds[k:] + seeds[:k] with k = day_index % len(seeds)
Rotate(seeds, day_index) ==
    LET k == day_index % Len(seeds)
    IN SubSeq(seeds, k + 1, Len(seeds)) \o SubSeq(seeds, 1, k)

\* ------------------------------------------------------------------------
\* Search and enrichment
\* ------------------------------------------------------------------------
\* serpapi_search on a provider response: "error" (timeout, connection
\* error or an HTTP error status) raises, otherwise the organic results are
\* mapped to {name, website, notes}.  Without an API key no request is made.
serpapi_results(organic) ==
    [i \in 1..Len(organic) |->
        [name |-> Take(OrEmpty(organic[i].title), 140),
         website |-> OrEmpty(organic[i].link),
         notes |-> Take(OrEmpty(organic[i].snippet), 500)]]

\* try_fetch_contact_page on a page response: <<contact_url, email, phone>>.
try_fetch_contact_page(website, resp) ==
    IF ~Truthy(website) THEN <<None, None, None>>
    ELSE IF resp.kind = "error" THEN <<None, None, None>>
    ELSE IF resp.status >= 400 THEN <<None, None, None>>
    ELSE LET html == Take(resp.text, HTML_LIMIT)
             m == Search(HREF_RE, html)
             href == IF m[1] = 0 THEN None ELSE SubSeq(html, m[1] + 6, m[2] - 2)
             contact_url ==
                 IF m[1] = 0 THEN None
                 ELSE IF StartsWith(href, <<"h", "t", "t", "p">>) THEN href
                 ELSE IF StartsWith(href, <<"/">>) THEN RStripSlash(website) \o href
                 ELSE None
         IN <<contact_url, extract_email(html), extract_phone(html)>>

\* ------------------------------------------------------------------------
\* Scoring and qualification
\* ------------------------------------------------------------------------
bad_domains ==
    << <<"y", "e", "l", "p", ".">>,
       <<"a", "n", "g", "i", ".">>,
       <<"h", "o", "m", "e", "a", "d", "v", "i", "s", "o", "r", ".">>,
       <<"t", "h", "u", "m", "b", "t", "a", "c", "k", ".">>,
       <<"b", "b", "b", ".">>,
       <<"y", "e", "l", "l", "o", "w", "p", "a", "g", "e", "s", ".">>,
       <<"m", "a", "p", "q", "u", "e", "s", "t", ".">>,
       <<"f", "a", "c", "e", "b", "o", "o", "k", ".", "c", "o", "m">> >>

\* The text score_lead matches keywords against.
LeadText(lead) ==
    Lower(JoinSpace(<<OrEmpty(lead.name), OrEmpty(lead.website),
                      OrEmpty(lead.notes), OrEmpty(lead.contact_url)>>))

\* The number of entries kw of kws with `kw and kw.lower() in text`.
RECURSIVE CountMatches(_, _)
CountMatches(kws, text) ==
    IF kws = <<>> THEN 0
    ELSE (IF Truthy(Head(kws)) /\ IsSubstring(Lower(Head(kws)), text) THEN 1 ELSE 0)
         + CountMatches(Tail(kws), text)

\* score_lead with the must-have weight subtracted.
score_lead_MustSign(lead, crit) ==
    LET text == LeadText(lead)
    IN (IF Truthy(lead.website) THEN 25 ELSE 0)
       + (IF Truthy(lead.email) THEN 25 ELSE 0)
       + (IF Truthy(lead.phone) THEN 15 ELSE 0)
       + (IF Truthy(lead.contact_url) THEN 15 ELSE 0)
       - 15 * CountMatches(GetOr(crit, "mustHave", <<>>), text)
       + 10 * CountMatches(GetOr(crit, "prioritySignals", <<>>), text)
       - 60 * CountMatches(GetOr(crit, "avoid", <<>>), text)
       - (IF \E i \in DOMAIN bad_domains :
                 IsSubstring(bad_domains[i], Lower(OrEmpty(lead.website)))
          THEN 70 ELSE 0)

score_lead(lead, criteria) ==
    LET must_have == GetOr(criteria, "mustHave", <<>>)
        avoid == GetOr(criteria, "avoid", <<>>)
        priority == GetOr(criteria, "prioritySignals", <<>>)
        text == LeadText(lead)
    IN (IF Truthy(lead.website) THEN 25 ELSE 0)
       + (IF Truthy(lead.email) THEN 25 ELSE 0)
       + (IF Truthy(lead.phone) THEN 15 ELSE 0)
       + (IF Truthy(lead.contact_url) THEN 15 ELSE 0)
       + 15 * CountMatches(must_have, text)
       + 10 * CountMatches(priority, text)
       - 60 * CountMatches(avoid, text)
       - (IF \E i \in DOMAIN bad_domains :
                 IsSubstring(bad_domains[i], Lower(OrEmpty(lead.website)))
          THEN 70 ELSE 0)

has_contact(lead) ==
    Truthy(lead.email) \/ Truthy(lead.phone) \/ Truthy(lead.contact_url)

\* qualifies with > for >=.
qualifies_Above(lead, min_score) == has_contact(lead) /\ lead.score > min_score

\* lead.get("score") or 0 is the score itself (0 or 0 = 0).
qualifies(lead, min_score) == has_contact(lead) /\ lead.score >= min_score

\* ------------------------------------------------------------------------
\* Lead store
\* ------------------------------------------------------------------------
\* The row save_leads writes for a lead (id and created_at left out).
LeadRow(lead, run_date) ==
    [niche |-> lead.niche, name |-> lead.name, website |-> lead.website,
     email |-> lead.email, phone |-> lead.phone, contact_url |-> lead.contact_url,
     location |-> lead.location, notes |-> lead.notes, score |-> lead.score,
     run_date |-> run_date]

\* UNIQUE(niche, website, email, run_date): two rows conflict when the four
\* columns are equal and none of them is NULL (SQL NULLs are distinct).
UniqueConflict(a, b) ==
    /\ a.niche = b.niche /\ a.website = b.website
    /\ a.email = b.email /\ a.run_date = b.run_date
    /\ a.website # None /\ a.email # None

\* save_leads: INSERT OR IGNORE of each lead in turn; <<table, added>>.
RECURSIVE save_leads(_, _, _)
save_leads(leads, run_date, table) ==
    IF leads = <<>> THEN <<table, 0>>
    ELSE LET row == LeadRow(Head(leads), run_date)
             ignored == \E i \in DOMAIN table : UniqueConflict(table[i], row)
             rest == save_leads(Tail(leads), run_date,
                                IF ignored THEN table ELSE Append(table, row))
         IN <<rest[1], rest[2] + (IF ignored THEN 0 ELSE 1)>>

\* ------------------------------------------------------------------------
\* Bounds and inputs
\* ------------------------------------------------------------------------
\* The number of seed cities a run walks (the first NumCities of CITY_SEEDS).
NumCities == 2

\* The largest daily quota of a niche.
MaxQuota == 2

Seeds == SubSeq(CITY_SEEDS, 1, NumCities)

T_ace == <<"A", "c", "e">>
T_ace2 == <<"A", "c", "e", "2">>
T_bee == <<"B", "e", "e">>
T_yelp == <<"Y", "e", "l", "p">>
T_frag == <<"F", "r", "a", "g">>
T_pro == <<"P", "r", "o">>
U_a == <<"a", ".", "c", "o">>
U_a2 == <<"A", ".", "c", "o", "?", "x">>
U_b == <<"b", ".", "c", "o", "/">>
U_yelp == <<"y", "e", "l", "p", ".", "c", "o">>
U_frag == <<"#", "f">>
U_c == <<"c", ".", "c", "o">>
N_phone == <<"c", "a", "l", "l", " ", "5", "5", "5", "-", "5", "5", "5", "-", "5", "5", "5", "5">>
N_mail == <<"x", "@", "a", ".", "c", "o">>
N_pro == <<"p", "r", "o", " ", "x", "@", "a", ".", "c", "o">>
H_contact == <<"<", "a", " ", "h", "r", "e", "f", "=", "\"", "/", "c", "o", "n", "t", "a", "c", "t", "\"", ">">>
H_mail == <<"x", "@", "a", ".", "c", "o">>

\* Organic results the search provider may return.
O1 == [title |-> T_ace, link |-> U_a, snippet |-> N_phone]
O2 == [title |-> T_ace2, link |-> U_a2, snippet |-> N_mail]
O3 == [title |-> T_bee, link |-> U_b, snippet |-> None]
O4 == [title |-> T_yelp, link |-> U_yelp, snippet |-> N_mail]
O5 == [title |-> T_frag, link |-> U_frag, snippet |-> N_mail]
O6 == [title |-> T_pro, link |-> U_c, snippet |-> N_pro]

\* The organic result lists one search call may get.
Feeds == {<<>>, <<O1, O6, O2>>, <<O3, O4>>, <<O5, O6>>}

\* The result lists of the search provider in the webhook runs.
HookFeeds == {<<O1, O6>>}

\* What the search provider may answer: an error or a result list.
SearchResponses(fs) == {[kind |-> "error"]} \cup {[kind |-> "ok", organic |-> f] : f \in fs}

\* What a fetched website may answer.
PageResponses ==
    {[kind |-> "error"],
     [kind |-> "http", status |-> 404, text |-> H_contact],
     [kind |-> "http", status |-> 200, text |-> H_contact],
     [kind |-> "http", status |-> 200, text |-> H_mail]}

NoPage == [kind |-> "error"]

NicheLists == {<<"hvac">>, <<"gym", "plumber">>}

Range(f) == {f[i] : i \in DOMAIN f}

MinScores == {0, 40}

\* Quota mappings: the same quota for every niche of a list, or for gym only.
QuotaMaps ==
    {[n \in Range(nl) |-> q] : nl \in NicheLists, q \in 0..MaxQuota} \cup {[gym |-> 1]}

\* The criteria a run may be called with.
CriteriaChoices ==
    {c \in {[niches |-> nl, dailyQuotas |-> q, minScore |-> ms, mustHave |-> <<T_pro>>] :
        nl \in NicheLists, q \in QuotaMaps, ms \in MinScores} :
        DOMAIN c.dailyQuotas \subseteq Range(c.niches)}

Today == "2024-01-01"

RunDates == {Today}

\* ------------------------------------------------------------------------
\* State
\* ------------------------------------------------------------------------
VARIABLES
    apiKey,             \* SERPAPI_KEY is set
    criteria,           \* run_daily's criteria argument
    run_date,           \* run_daily's run_date argument
    day_index,          \* the day of the year of the run
    pc,                 \* where run_daily stands
    ni, ci, qi,         \* the niche, city and query the loops are at
    items,              \* the search results not yet examined
    results_by_niche,
    seen_urls,
    out,                \* run_daily's return value
    leadsTable,         \* the rows of the leads table
    added2,             \* what a second save_leads of the same leads returned
    lastItem,           \* history: the last search result examined
    offered,            \* history: the candidates that qualified
    shortfall,          \* history: niches the source fell short for
    searched,           \* history: the number of searches made
    feeds,              \* the result lists the search provider may answer with
    smtp,               \* GMAIL_SMTP_USER and GMAIL_SMTP_APP_PASSWORD are set
    criteriaTable,      \* the rows of the criteria table
    hpc,                \* where vapi_webhook stands
    calls,              \* the tool calls handled so far
    results,            \* vapi_webhook's results list
    failed,             \* history: for each call, whether its operation raised
    snaps,              \* history: the stores after each call
    batchLen,           \* the number of tool calls of the request
    rseeds,             \* rotation: the seed list
    rday,               \* rotation: the first day ordinal
    rlog,               \* rotation: the orders of the days from rday on
    slead,              \* scoring: the candidate
    scrit,              \* scoring: the criteria
    sadded,             \* scoring: the text last added to the notes
    sbefore,            \* scoring: the candidate before that
    sadds               \* scoring: the number of additions

runVars_noTable == <<criteria, run_date, day_index, pc, ni, ci, qi, items,
                     results_by_niche, seen_urls, out, added2, lastItem, offered,
                     shortfall, searched>>

runVars == <<criteria, run_date, day_index, pc, ni, ci, qi, items,
             results_by_niche, seen_urls, out, leadsTable, added2,
             lastItem, offered, shortfall, searched>>

envVars == <<apiKey, feeds, smtp>>

hookVars == <<criteriaTable, hpc, calls, results, failed, snaps, batchLen>>

rotVars == <<rseeds, rday, rlog>>

scoreVars == <<slead, scrit, sadded, sbefore, sadds>>

vars == <<criteria, run_date, day_index, pc, ni, ci, qi, items, results_by_niche,
          seen_urls, out, leadsTable, added2, lastItem, offered, shortfall, searched,
          apiKey, feeds, smtp, criteriaTable, hpc, calls, results, failed, snaps,
          batchLen, rseeds, rday, rlog, slead, scrit, sadded, sbefore, sadds>>

\* run_daily's locals, all set once from its arguments.
niches == GetOr(criteria, "niches", DefaultNiches)
quotas == GetOr(criteria, "dailyQuotas", DefaultQuotas)
min_score == IntOr(criteria, "minScore", DEFAULT_MIN_SCORE)
rotated == Rotate(Seeds, day_index)

\* int(quotas.get(niche, 0))
Target(niche) == IF niche \in DOMAIN quotas THEN quotas[niche] ELSE 0

\* The quota test with > for >=.
QuotaReached_Above(count, target) == count > target

\* len(results_by_niche[niche]) >= target
QuotaReached(count, target) == count >= target

\* `not norm or norm in seen_urls`
ShouldSkip(norm, seen) == norm = <<>> \/ norm \in seen

niche == niches[ni]
city == rotated[ci]
queries == build_queries(niche, city)

RECURSIVE AllLeads(_, _)
AllLeads(ns, byNiche) ==
    IF ns = <<>> THEN <<>> ELSE byNiche[Head(ns)] \o AllLeads(Tail(ns), byNiche)

NoItem == [kind |-> "none"]

\* The state run_daily starts its loops in.
RunEntry(c, d, day) ==
    /\ criteria' = c
    /\ run_date' = d
    /\ day_index' = day
    /\ pc' = "niche"
    /\ ni' = 1 /\ ci' = 1 /\ qi' = 1
    /\ items' = <<>>
    /\ results_by_niche' = [n \in Range(GetOr(c, "niches", DefaultNiches)) |-> <<>>]
    /\ seen_urls' = {}
    /\ out' = None
    /\ lastItem' = NoItem
    /\ offered' = {}
    /\ shortfall' = {}
    /\ searched' = 0

\* The webhook, the rotation log and the scoring bench at rest.
HookOff ==
    /\ criteriaTable = <<>>
    /\ hpc = "off"
    /\ calls = <<>>
    /\ results = <<>>
    /\ failed = <<>>
    /\ snaps = <<>>
    /\ batchLen = 0

RotOff ==
    /\ rseeds = <<>>
    /\ rday = 0
    /\ rlog = <<>>

ScoreOff ==
    /\ slead = NoItem
    /\ scrit = <<>>
    /\ sadded = None
    /\ sbefore = NoItem
    /\ sadds = 0

\* run_daily at rest.
RunOff ==
    /\ criteria = DefaultCriteria
    /\ run_date = Today
    /\ day_index = 1
    /\ pc = "idle"
    /\ ni = 1 /\ ci = 1 /\ qi = 1
    /\ items = <<>>
    /\ results_by_niche = [n \in Range(DefaultNiches) |-> <<>>]
    /\ seen_urls = {}
    /\ out = None
    /\ leadsTable = <<>>
    /\ added2 = -1
    /\ lastItem = NoItem
    /\ offered = {}
    /\ shortfall = {}
    /\ searched = 0

Init ==
    /\ apiKey \in BOOLEAN
    /\ criteria \in CriteriaChoices
    /\ run_date \in RunDates
    /\ day_index = 1
    /\ pc = "niche"
    /\ ni = 1 /\ ci = 1 /\ qi = 1
    /\ items = <<>>
    /\ results_by_niche = [n \in Range(niches) |-> <<>>]
    /\ seen_urls = {}
    /\ out = None
    /\ leadsTable = <<>>
    /\ added2 = -1
    /\ lastItem = NoItem
    /\ offered = {}
    /\ shortfall = {}
    /\ searched = 0
    /\ feeds = Feeds
    /\ smtp = FALSE
    /\ HookOff
    /\ RotOff
    /\ ScoreOff

\* for niche in niches: skip a niche without a positive quota.
RunNiche ==
    /\ pc = "niche" /\ ni <= Len(niches)
    /\ IF Target(niche) <= 0
       THEN /\ ni' = ni + 1
            /\ UNCHANGED <<pc, ci>>
       ELSE /\ pc' = "city"
            /\ ci' = 1
            /\ UNCHANGED ni
    /\ UNCHANGED <<envVars, hookVars, rotVars, scoreVars>>
    /\ UNCHANGED <<criteria, run_date, day_index, qi, items, results_by_niche,
                   seen_urls, out, leadsTable, added2, lastItem, offered, shortfall,
                   searched>>

\* for city in rotated: leave the niche when the cities are used up or the
\* quota is reached.
RunCity ==
    /\ pc = "city"
    /\ IF ci > Len(rotated) \/ QuotaReached(Len(results_by_niche[niche]), Target(niche))
       THEN /\ pc' = "niche"
            /\ ni' = ni + 1
            /\ UNCHANGED qi
       ELSE /\ pc' = "query"
            /\ qi' = 1
            /\ UNCHANGED ni
    /\ UNCHANGED <<envVars, hookVars, rotVars, scoreVars>>
    /\ UNCHANGED <<criteria, run_date, day_index, ci, items, results_by_niche,
                   seen_urls, out, leadsTable, added2, lastItem, offered, shortfall,
                   searched>>

\* for q in build_queries(niche, city): leave the city when the queries are
\* used up or the quota is reached.
RunQueryEnd ==
    /\ pc = "query"
    /\ qi > Len(queries) \/ QuotaReached(Len(results_by_niche[niche]), Target(niche))
    /\ pc' = "city"
    /\ ci' = ci + 1
    /\ UNCHANGED <<envVars, hookVars, rotVars, scoreVars>>
    /\ UNCHANGED <<criteria, run_date, day_index, ni, qi, items, results_by_niche,
                   seen_urls, out, leadsTable, added2, lastItem, offered, shortfall,
                   searched>>

\* serpapi_search(q) returns: [] without an API key, else the mapped results.
RunSearch ==
    /\ pc = "query"
    /\ qi <= Len(queries)
    /\ ~QuotaReached(Len(results_by_niche[niche]), Target(niche))
    /\ \E resp \in SearchResponses(feeds) :
          /\ resp.kind = "ok"
          /\ items' = IF apiKey THEN serpapi_results(resp.organic) ELSE <<>>
    /\ pc' = "item"
    /\ searched' = searched + 1
    /\ UNCHANGED <<envVars, hookVars, rotVars, scoreVars>>
    /\ UNCHANGED <<criteria, run_date, day_index, ni, ci, qi, results_by_niche,
                   seen_urls, out, leadsTable, added2, lastItem, offered, shortfall>>

\* serpapi_search(q) raises (requests.get or raise_for_status): nothing in
\* run_daily catches it.
RunSearchError ==
    /\ pc = "query"
    /\ qi <= Len(queries)
    /\ ~QuotaReached(Len(results_by_niche[niche]), Target(niche))
    /\ apiKey
    /\ \E resp \in SearchResponses(feeds) : resp.kind = "error"
    /\ pc' = "raised"
    /\ searched' = searched + 1
    /\ UNCHANGED <<envVars, hookVars, rotVars, scoreVars>>
    /\ UNCHANGED <<criteria, run_date, day_index, ni, ci, qi, items,
                   results_by_niche, seen_urls, out, leadsTable, added2, lastItem,
                   offered, shortfall>>

\* lead["score"] = score_lead(lead, criteria)
Scored(lead) == [lead EXCEPT !.score = score_lead(lead, criteria)]

\* The candidate with the contact-page findings <<contact_url, email, phone>>
\* filled in and its score set.
Candidate(item, email0, phone0, got) ==
    Scored([niche |-> niche, name |-> item.name, website |-> OrEmpty(item.website),
            location |-> city, notes |-> item.notes,
            email |-> IF Truthy(got[2]) THEN got[2] ELSE email0,
            phone |-> IF Truthy(got[3]) THEN got[3] ELSE phone0,
            contact_url |-> got[1], score |-> 0])

\* The page is fetched only when the snippet gave neither email nor phone.
Enriched(item, email0, phone0, page) ==
    Candidate(item, email0, phone0,
              IF ~(Truthy(email0) \/ Truthy(phone0))
              THEN try_fetch_contact_page(OrEmpty(item.website), page)
              ELSE <<None, None, None>>)

\* The candidate run_daily builds from a search result and a page response.
BuildLead(item, page) ==
    Enriched(item, extract_email(OrEmpty(item.notes)), extract_phone(OrEmpty(item.notes)),
             page)

\* History: the candidate, when it has a contact and reaches the threshold
\* of the run.
Qualifying(lead) ==
    IF has_contact(lead) /\ lead.score >= min_score THEN {lead} ELSE {}

\* The for-loop over the results of one search has run out.
RunItemsEnd ==
    /\ pc = "item" /\ items = <<>>
    /\ pc' = "query"
    /\ qi' = qi + 1
    /\ shortfall' = shortfall \cup {niche}
    /\ UNCHANGED <<envVars, hookVars, rotVars, scoreVars>>
    /\ UNCHANGED <<criteria, run_date, day_index, ni, ci, items, results_by_niche,
                   seen_urls, out, leadsTable, added2, lastItem, offered, searched>>

\* The page responses a result can meet: none is asked for when the snippet
\* gave an email or a phone.
PagesFor(email0, phone0) ==
    IF Truthy(email0) \/ Truthy(phone0) THEN {NoPage} ELSE PageResponses

\* A result whose URL is empty or seen is passed over.
SkipItem(norm) ==
    /\ items' = Tail(items)
    /\ lastItem' = [kind |-> "skip", niche |-> niche, norm |-> norm]
    /\ shortfall' = shortfall \cup {niche}
    /\ UNCHANGED <<pc, qi, results_by_niche, seen_urls, offered>>

\* A candidate that qualifies is recorded and its URL marked as seen; the
\* loop over the results is left when that fills the quota.
RecordItem(norm, lead) ==
    /\ results_by_niche' = [results_by_niche EXCEPT ![niche] = Append(@, lead)]
    /\ seen_urls' = seen_urls \cup {norm}
    /\ lastItem' = [kind |-> "record", niche |-> niche, lead |-> lead]
    /\ offered' = offered \cup Qualifying(lead)
    /\ IF QuotaReached(Len(results_by_niche[niche]) + 1, Target(niche))
       THEN /\ pc' = "query"
            /\ qi' = qi + 1
            /\ items' = <<>>
       ELSE /\ items' = Tail(items)
            /\ UNCHANGED <<pc, qi>>
    /\ UNCHANGED shortfall

\* A candidate that does not qualify is dropped.
RejectItem(lead) ==
    /\ items' = Tail(items)
    /\ lastItem' = [kind |-> "reject", niche |-> niche, lead |-> lead]
    /\ offered' = offered \cup Qualifying(lead)
    /\ shortfall' = shortfall \cup {niche}
    /\ UNCHANGED <<pc, qi, results_by_niche, seen_urls>>

ExamineItem(norm, lead) ==
    IF ShouldSkip(norm, seen_urls) THEN SkipItem(norm)
    ELSE IF qualifies(lead, min_score) THEN RecordItem(norm, lead)
    ELSE RejectItem(lead)

\* One pass of the for-loop over the results of a search.
RunItem ==
    /\ pc = "item" /\ items # <<>>
    /\ \E page \in PagesFor(extract_email(OrEmpty(Head(items).notes)),
                            extract_phone(OrEmpty(Head(items).notes))) :
          ExamineItem(normalize_url(OrEmpty(Head(items).website)),
                      BuildLead(Head(items), page))
    /\ UNCHANGED <<envVars, hookVars, rotVars, scoreVars>>
    /\ UNCHANGED <<criteria, run_date, day_index, ni, ci, out, leadsTable,
                   added2, searched>>

\* After the loops: save the leads of all niches and return the report.
RunFinish ==
    /\ pc = "niche" /\ ni > Len(niches)
    /\ LET saved == save_leads(AllLeads(niches, results_by_niche), run_date, leadsTable)
       IN /\ leadsTable' = saved[1]
          /\ out' = [runDate |-> run_date, added |-> saved[2],
                     counts |-> [n \in Range(niches) |-> Len(results_by_niche[n])],
                     leadsByNiche |-> results_by_niche]
    /\ pc' = "returned"
    /\ UNCHANGED <<envVars, hookVars, rotVars, scoreVars>>
    /\ UNCHANGED <<criteria, run_date, day_index, ni, ci, qi, items,
                   results_by_niche, seen_urls, added2, lastItem, offered, shortfall,
                   searched>>

\* save_leads called once more with the leads and run_date of the run.
SaveAgain ==
    /\ pc = "returned"
    /\ LET saved == save_leads(AllLeads(niches, results_by_niche), run_date, leadsTable)
       IN /\ leadsTable' = saved[1]
          /\ added2' = saved[2]
    /\ pc' = "resaved"
    /\ UNCHANGED <<envVars, hookVars, rotVars, scoreVars>>
    /\ UNCHANGED <<criteria, run_date, day_index, ni, ci, qi, items,
                   results_by_niche, seen_urls, out, lastItem, offered, shortfall,
                   searched>>

Next ==
    \/ RunNiche
    \/ RunCity
    \/ RunQueryEnd
    \/ RunSearch
    \/ RunSearchError
    \/ RunItemsEnd
    \/ RunItem
    \/ RunFinish
    \/ SaveAgain

Spec == Init /\ [][Next]_vars

\* ------------------------------------------------------------------------
\* Criteria store
\* ------------------------------------------------------------------------
\* json.dumps and json.loads: the JSON text of a value, kept apart from the
\* value itself.
JsonDumps(v) == [json |-> v]
JsonLoads(t) == t.json

\* get_criteria: the stored record, or the defaults when there is no row.
get_criteria(table) ==
    IF \E i \in DOMAIN table : table[i].id = 1
    THEN JsonLoads(table[CHOOSE i \in DOMAIN table : table[i].id = 1].criteria_json)
    ELSE DefaultCriteria

\* set_criteria: DELETE FROM criteria, then INSERT the row with id 1.
set_criteria(crit) == <<[id |-> 1, criteria_json |-> JsonDumps(crit)]>>

\* crit.update(params)
Update(crit, params) ==
    [k \in DOMAIN crit \cup DOMAIN params |->
        IF k \in DOMAIN params THEN params[k] ELSE crit[k]]

\* d.get(k) or default, for a field that holds a string.
StrOr(d, k, default) ==
    IF k \in DOMAIN d /\ d[k] # "" THEN d[k] ELSE default

\* The criteria setLeadCriteria stores: the prior record updated with the
\* parameters, then its five defaulted fields.
MergedCriteria(prior, params) ==
    LET crit == Update(prior, params)
        fixed == [ownerEmail |-> GetOr(crit, "ownerEmail", DEFAULT_OWNER_EMAIL),
                  niches |-> GetOr(crit, "niches", DefaultNiches),
                  dailyQuotas |-> GetOr(crit, "dailyQuotas", DefaultQuotas),
                  geo |-> StrOr(crit, "geo", DefaultGeo),
                  minScore |-> IntOr(crit, "minScore", DEFAULT_MIN_SCORE)]
    IN Update(crit, fixed)

\* get_todays_leads: the rows of run_date with score >= min_score, at most
\* limit of them (a negative LIMIT is no limit); their number.
get_todays_leads(table, date, limit, minScore) ==
    LET hits == {i \in DOMAIN table :
                    table[i].run_date = date /\ table[i].score >= minScore}
    IN IF limit < 0 \/ Cardinality(hits) < limit THEN Cardinality(hits) ELSE limit

\* ------------------------------------------------------------------------
\* Webhook
\* ------------------------------------------------------------------------
\* The largest number of tool calls in one request.
MaxCalls == 3

NoName == "None"

\* tc.get("name") or tc.get("function", {}).get("name")
tool_name(tc) ==
    IF "name" \in DOMAIN tc /\ tc.name # "" THEN tc.name
    ELSE IF "function" \in DOMAIN tc /\ "name" \in DOMAIN tc.function THEN tc.function.name
    ELSE NoName

\* tc.get("id") or tc.get("toolCallId") or tc.get("tool_call_id")
tool_call_id(tc) ==
    IF "id" \in DOMAIN tc /\ tc.id # 0 THEN tc.id
    ELSE IF "toolCallId" \in DOMAIN tc /\ tc.toolCallId # 0 THEN tc.toolCallId
    ELSE IF "tool_call_id" \in DOMAIN tc /\ tc.tool_call_id # 0 THEN tc.tool_call_id
    ELSE 0

EmptyDict == [kind |-> "dict", val |-> <<>>]

IsFalsyParam(x) == x.kind = "dict" /\ x.val = <<>>

\* tc.get("parameters") or tc.get("args") or
\* tc.get("function", {}).get("arguments") or {}, then json.loads of a string
\* ({} when it is not JSON).  Parameters are [kind, val]: a dict, the JSON
\* text of a dict, a text that is not JSON, or a list.
tool_params(tc) ==
    LET raw == IF "parameters" \in DOMAIN tc /\ ~IsFalsyParam(tc.parameters)
               THEN tc.parameters
               ELSE IF "args" \in DOMAIN tc /\ ~IsFalsyParam(tc.args) THEN tc.args
               ELSE IF "function" \in DOMAIN tc /\ "arguments" \in DOMAIN tc.function
                       /\ ~IsFalsyParam(tc.function.arguments)
               THEN tc.function.arguments
               ELSE EmptyDict
    IN IF raw.kind = "json" THEN [kind |-> "dict", val |-> JsonLoads(raw.val)]
       ELSE IF raw.kind = "text" THEN EmptyDict
       ELSE raw

P_min0 == [minScore |-> 0]
P_gym == [niches |-> <<"gym">>, dailyQuotas |-> [gym |-> 1], minScore |-> 40]
P_date == [date |-> "2024-01-02"]
P_limit == [limit |-> 1]

\* The tool calls a request may hold, before their ids.
ToolCalls ==
    {[name |-> "setLeadCriteria", parameters |-> [kind |-> "dict", val |-> P_min0]],
     [function |-> [name |-> "setLeadCriteria",
                    arguments |-> [kind |-> "json", val |-> JsonDumps(P_gym)]]],
     [name |-> "runDailyLeadRun", parameters |-> [kind |-> "dict", val |-> P_date]],
     [name |-> "previewTodaysLeads", args |-> [kind |-> "dict", val |-> P_limit]],
     [name |-> "sendDailyLeadEmail", parameters |-> [kind |-> "text", val |-> <<"x">>]],
     [name |-> "whoAmI"]}

\* A tool call of the request with its id, the position in the list.
WithId(tc, id) ==
    IF "function" \in DOMAIN tc THEN [k \in DOMAIN tc \cup {"toolCallId"} |->
                                         IF k = "toolCallId" THEN id ELSE tc[k]]
    ELSE [k \in DOMAIN tc \cup {"id"} |-> IF k = "id" THEN id ELSE tc[k]]

\* The result entry of a call; "UNKNOWN" stands for a missing name in the
\* error and the ignored entries.
ResultEntry(tc, status, body) ==
    [name |-> IF tool_name(tc) = NoName /\ status \in {"error", "ignored"}
              THEN "UNKNOWN" ELSE tool_name(tc),
     toolCallId |-> tool_call_id(tc), status |-> status, body |-> body]

\* An except clause that ends the request.
AfterError_Abort == "done"

\* The report of a digest that was sent.
Digest(crit) ==
    [to |-> GetOr(crit, "ownerEmail", DEFAULT_OWNER_EMAIL),
     count |-> get_todays_leads(leadsTable, Today, 100,
                                IntOr(crit, "minScore", DEFAULT_MIN_SCORE)),
     runDate |-> Today]

\* Where vapi_webhook goes on after the except clause of a call.
AfterError == "loop"

\* The stores, for the history.
Stores(ct, lt) == [criteria |-> ct, leads |-> lt]

\* The end of one pass of the loop over the tool calls: the call's result is
\* appended, raised says whether the except clause made it.
HookDone(tc, status, body, raised, ct, lt) ==
    /\ calls' = Append(calls, tc)
    /\ results' = Append(results, ResultEntry(tc, status, body))
    /\ failed' = Append(failed, raised)
    /\ snaps' = Append(snaps, Stores(ct, lt))
    /\ criteriaTable' = ct
    /\ leadsTable' = lt
    /\ hpc' = IF raised THEN AfterError ELSE "loop"

HookInit ==
    /\ apiKey = TRUE
    /\ feeds = HookFeeds
    /\ smtp \in BOOLEAN
    /\ criteriaTable = <<>>
    /\ hpc = "loop"
    /\ calls = <<>>
    /\ results = <<>>
    /\ failed = <<>>
    /\ snaps = <<>>
    /\ batchLen \in 0..MaxCalls
    /\ RunOff
    /\ RotOff
    /\ ScoreOff

\* The next tool call of the request, when the handler is between calls.
NextCall(tc) ==
    /\ hpc = "loop" /\ pc = "idle" /\ Len(calls) < batchLen
    /\ \E t \in ToolCalls : tc = WithId(t, Len(calls) + 1)

\* setLeadCriteria: merge the parameters onto the stored criteria and store
\* the result; parameters that are no dict make crit.update raise.
HookSetCriteria ==
    \E tc \in {WithId(t, Len(calls) + 1) : t \in ToolCalls} :
        /\ NextCall(tc)
        /\ tool_name(tc) = "setLeadCriteria"
        /\ LET params == tool_params(tc)
           IN IF params.kind # "dict"
              THEN HookDone(tc, "error", None, TRUE, criteriaTable, leadsTable)
              ELSE LET crit == MergedCriteria(get_criteria(criteriaTable), params.val)
                   IN HookDone(tc, "saved", crit, FALSE, set_criteria(crit), leadsTable)
        /\ UNCHANGED <<runVars_noTable, envVars, rotVars, scoreVars, batchLen>>

\* runDailyLeadRun: read the criteria and enter run_daily; parameters that
\* are no dict make params.get raise.
HookRunStart ==
    \E tc \in {WithId(t, Len(calls) + 1) : t \in ToolCalls} :
        /\ NextCall(tc)
        /\ tool_name(tc) = "runDailyLeadRun"
        /\ LET params == tool_params(tc)
           IN IF params.kind # "dict"
              THEN /\ HookDone(tc, "error", None, TRUE, criteriaTable, leadsTable)
                   /\ UNCHANGED <<runVars_noTable>>
              ELSE /\ RunEntry(get_criteria(criteriaTable),
                               StrOr(params.val, "date", Today), day_index)
                   /\ calls' = Append(calls, tc)
                   /\ hpc' = "run"
                   /\ UNCHANGED <<added2, leadsTable, criteriaTable, results, failed, snaps>>
        /\ UNCHANGED <<envVars, rotVars, scoreVars, batchLen>>

\* run_daily has returned or raised: the call's result is its report or the
\* error of the except clause.
HookRunEnd ==
    /\ hpc = "run" /\ pc \in {"returned", "raised"}
    /\ results' = Append(results,
                         ResultEntry(calls[Len(calls)],
                                     IF pc = "raised" THEN "error" ELSE "ok", out))
    /\ failed' = Append(failed, pc = "raised")
    /\ snaps' = Append(snaps, Stores(criteriaTable, leadsTable))
    /\ hpc' = IF pc = "raised" THEN AfterError ELSE "loop"
    /\ pc' = "idle"
    /\ UNCHANGED <<criteria, run_date, day_index, ni, ci, qi, items, results_by_niche,
                   seen_urls, out, leadsTable, added2, lastItem, offered, shortfall,
                   searched, calls, criteriaTable, envVars, rotVars, scoreVars, batchLen>>

\* previewTodaysLeads: parameters that are no dict make params.get raise.
HookPreview ==
    \E tc \in {WithId(t, Len(calls) + 1) : t \in ToolCalls} :
        /\ NextCall(tc)
        /\ tool_name(tc) = "previewTodaysLeads"
        /\ LET params == tool_params(tc)
               crit == get_criteria(criteriaTable)
           IN IF params.kind # "dict"
              THEN HookDone(tc, "error", None, TRUE, criteriaTable, leadsTable)
              ELSE HookDone(tc, "ok",
                            [runDate |-> Today,
                             count |-> get_todays_leads(leadsTable, Today,
                                           IntOr(params.val, "limit", 10),
                                           IntOr(crit, "minScore", DEFAULT_MIN_SCORE))],
                            FALSE, criteriaTable, leadsTable)
        /\ UNCHANGED <<runVars_noTable, envVars, rotVars, scoreVars, batchLen>>

\* sendDailyLeadEmail: send_gmail raises when the SMTP account is not set or
\* the transport fails (sent says whether it went through).
HookSend ==
    \E tc \in {WithId(t, Len(calls) + 1) : t \in ToolCalls}, sent \in BOOLEAN :
        /\ NextCall(tc)
        /\ tool_name(tc) = "sendDailyLeadEmail"
        /\ IF tool_params(tc).kind # "dict" \/ ~smtp \/ ~sent
           THEN HookDone(tc, "error", None, TRUE, criteriaTable, leadsTable)
           ELSE HookDone(tc, "emailed", Digest(get_criteria(criteriaTable)),
                         FALSE, criteriaTable, leadsTable)
        /\ UNCHANGED <<runVars_noTable, envVars, rotVars, scoreVars, batchLen>>

\* Any other tool name is ignored.
HookUnknown ==
    \E tc \in {WithId(t, Len(calls) + 1) : t \in ToolCalls} :
        /\ NextCall(tc)
        /\ tool_name(tc) \notin {"setLeadCriteria", "runDailyLeadRun",
                                 "previewTodaysLeads", "sendDailyLeadEmail"}
        /\ HookDone(tc, "ignored", None, FALSE, criteriaTable, leadsTable)
        /\ UNCHANGED <<runVars_noTable, envVars, rotVars, scoreVars, batchLen>>

\* The tool calls are used up: the response {"results": results} is returned.
HookReturn ==
    /\ hpc = "loop" /\ pc = "idle" /\ Len(calls) = batchLen
    /\ hpc' = "done"
    /\ UNCHANGED <<runVars, envVars, rotVars, scoreVars, criteriaTable, calls, results,
                   failed, snaps, batchLen>>

HookNext ==
    \/ HookSetCriteria
    \/ HookRunStart
    \/ RunNiche
    \/ RunCity
    \/ RunQueryEnd
    \/ RunSearch
    \/ RunSearchError
    \/ RunItemsEnd
    \/ RunItem
    \/ RunFinish
    \/ HookRunEnd
    \/ HookPreview
    \/ HookSend
    \/ HookUnknown
    \/ HookReturn

HookSpec == HookInit /\ [][HookNext]_vars


\* ------------------------------------------------------------------------
\* Rotation over consecutive days
\* ------------------------------------------------------------------------
\* The longest seed list and the latest first day of the rotation log.
MaxSeeds == 4
MaxStartDay == 5

RotInit ==
    /\ \E n \in 1..MaxSeeds : rseeds = SubSeq(CITY_SEEDS, 1, n)
    /\ rday \in 0..MaxStartDay
    /\ rlog = <<>>
    /\ apiKey = FALSE
    /\ feeds = {}
    /\ smtp = FALSE
    /\ RunOff
    /\ HookOff
    /\ ScoreOff

\* The order run_daily computes on the next day.
RotateDay ==
    /\ rseeds # <<>>
    /\ Len(rlog) < 2 * Len(rseeds) + 1
    /\ rlog' = Append(rlog, Rotate(rseeds, rday + Len(rlog)))
    /\ UNCHANGED <<rseeds, rday, runVars, envVars, hookVars, scoreVars>>

RotNext == RotateDay

RotSpec == RotInit /\ [][RotNext]_vars

\* ------------------------------------------------------------------------
\* Scoring a candidate before and after a text is added to its notes
\* ------------------------------------------------------------------------
\* The largest number of additions to the notes of one candidate.
MaxAdds == 2

K_pro == <<"p", "r", "o">>
K_ro == <<"r", "o">>
K_span == <<"f", "a", "s", "t", " ", "h", "t", "t", "p">>
A_pro == <<" ", "P", "r", "o">>
A_x == <<" ", "x">>
N_fast == <<"f", "a", "s", "t">>
C_url == <<"h", "t", "t", "p", ":", "/", "/", "a", ".", "c", "o", "/", "c">>

ScoreLeads ==
    {[niche |-> "hvac", name |-> T_ace, website |-> U_a, location |-> CITY_SEEDS[1],
      notes |-> n, email |-> None, phone |-> None, contact_url |-> c, score |-> 0] :
        n \in {None, N_fast}, c \in {None, C_url}}

ScoreCriteria ==
    {[mustHave |-> m, prioritySignals |-> p, avoid |-> a] :
        m \in {<<>>, <<K_pro>>, <<K_span>>},
        p \in {<<>>, <<K_ro>>},
        a \in {<<>>, <<K_ro>>, <<K_pro>>}}

AddTexts == {A_pro, A_x}

\* lead["score"] = score_lead(lead, criteria), for the criteria crit.
ScoredWith(lead, crit) == [lead EXCEPT !.score = score_lead(lead, crit)]

ScoreInit ==
    /\ scrit \in ScoreCriteria
    /\ slead \in {ScoredWith(l, scrit) : l \in ScoreLeads}
    /\ sadded = None
    /\ sbefore = NoItem
    /\ sadds = 0
    /\ apiKey = FALSE
    /\ feeds = {}
    /\ smtp = FALSE
    /\ RunOff
    /\ HookOff
    /\ RotOff

\* A text is added to the notes of the candidate, which is scored again.
AddToNotes ==
    /\ slead # NoItem
    /\ sadds < MaxAdds
    /\ \E t \in AddTexts :
          /\ sadded' = t
          /\ slead' = ScoredWith([slead EXCEPT !.notes = OrEmpty(@) \o t], scrit)
    /\ sbefore' = slead
    /\ sadds' = sadds + 1
    /\ UNCHANGED <<scrit, runVars, envVars, hookVars, rotVars>>

ScoreNext == AddToNotes

ScoreSpec == ScoreInit /\ [][ScoreNext]_vars

\* ========================================================================
\* Properties
\* ========================================================================
Returned == pc \in {"returned", "resaved"}

\* The leads recorded so far, as <<niche, position>> pairs.
Recorded == {<<n, i>> : n \in DOMAIN results_by_niche, i \in 1..MaxQuota + 1} \cap
            {e \in (DOMAIN results_by_niche) \X (1..MaxQuota + 1) :
                e[2] <= Len(results_by_niche[e[1]])}

\* C1: a niche with quota Q > 0 never holds more than Q leads, and when the
\* source never fell short for it (every result examined for the niche was
\* fresh and qualified, and no result list ran out before the quota) it holds
\* exactly Q leads when run_daily returns.
C1_QuotaExact ==
    \A n \in DOMAIN results_by_niche :
        Target(n) > 0 =>
            /\ Len(results_by_niche[n]) <= Target(n)
            /\ (Returned /\ n \notin shortfall) => Len(results_by_niche[n]) = Target(n)

C1_Witness ==
    /\ pc = "returned"
    /\ \E n \in DOMAIN results_by_niche :
          /\ Target(n) >= 2 /\ n \notin shortfall
          /\ Len(results_by_niche[n]) = Target(n)
          /\ out.counts[n] = Target(n)

\* No two rows of the leads table share (niche, website, email, run_date).
NoDuplicateRows ==
    \A i, j \in DOMAIN leadsTable :
        i # j => ~(/\ leadsTable[i].niche = leadsTable[j].niche
                   /\ leadsTable[i].website = leadsTable[j].website
                   /\ leadsTable[i].email = leadsTable[j].email
                   /\ leadsTable[i].run_date = leadsTable[j].run_date)

\* C2: saving the leads of a run a second time for the same run_date adds no
\* row: the second save_leads returns 0 and no two rows share
\* (niche, website, email, run_date).
C2_SecondSaveAddsNothing ==
    pc = "resaved" => (added2 = 0 /\ NoDuplicateRows)

\* C3: an error of the search call is taken as zero results: run_daily never
\* ends by raising.
C3_SearchErrorAbsorbed == pc # "raised"

\* C4: an examined candidate is recorded exactly when it has an email, a
\* phone or a contact_url and its score is at least the configured minScore.
C4_RecordedIffQualified ==
    lastItem.kind \in {"record", "reject"} =>
        ((lastItem.kind = "record") <=>
            (has_contact(lastItem.lead) /\ lastItem.lead.score >= criteria.minScore))

\* The dedup key of the specification: the URL without surrounding blanks,
\* cut at its first "#" or "?", in lower case.
UrlKey(u) ==
    LET t == Strip(u)
        cut == {i \in 1..Len(t) : t[i] \in {"#", "?"}}
    IN Lower(IF cut = {} THEN t
             ELSE SubSeq(t, 1, (CHOOSE i \in cut : \A j \in cut : i <= j) - 1))

\* C5: no two recorded leads, of the same niche or not, have the same
\* normalized URL, and no recorded lead has an empty one.
C5_SeenSharedAcrossNiches ==
    \A a \in Recorded :
        /\ UrlKey(results_by_niche[a[1]][a[2]].website) # <<>>
        /\ \A b \in Recorded :
              a # b => UrlKey(results_by_niche[a[1]][a[2]].website)
                       # UrlKey(results_by_niche[b[1]][b[2]].website)

\* A result is skipped in a later niche because an earlier niche recorded
\* its URL.
C5_Witness ==
    /\ lastItem.kind = "skip" /\ lastItem.norm # <<>>
    /\ ni > 1 /\ lastItem.niche = niche
    /\ \E i \in 1..Len(results_by_niche[niches[1]]) :
          /\ niches[1] # niche
          /\ UrlKey(results_by_niche[niches[1]][i].website) = lastItem.norm

\* C6: a run for a single niche that ends below its quota has made every
\* search of the rotation and reports every candidate that qualified, and
\* every step of run_daily lowers a natural-number measure, so every run ends
\* (by returning, or by the search error that stops it).
C6_ShortInv ==
    (Returned /\ Len(niches) = 1 /\ Target(niches[1]) > 0
       /\ Len(results_by_niche[niches[1]]) < Target(niches[1])) =>
        /\ searched = Len(rotated) * Len(build_queries(niches[1], rotated[1]))
        /\ offered = Range(results_by_niche[niches[1]])
        /\ out.leadsByNiche[niches[1]] = results_by_niche[niches[1]]
        /\ out.counts[niches[1]] = Cardinality(offered)

\* A measure of the work run_daily has left: the loops' positions, the outer
\* loop first.
Rank ==
    LET maxItems == 1 + Cardinality(UNION {DOMAIN f : f \in feeds})
        a == Len(niches) + 1 - ni
        b == IF pc = "niche" THEN Len(rotated) + 1 ELSE Len(rotated) + 1 - ci
        c == IF pc \in {"niche", "city"} THEN 6 ELSE 5 - qi
        d == IF pc = "item" THEN Len(items) ELSE maxItems
    IN IF pc \in {"resaved", "raised"} THEN 0
       ELSE IF pc = "returned" THEN 1
       ELSE 2 + ((a * (Len(rotated) + 2) + b) * 7 + c) * (maxItems + 1) + d

C6_PartialFulfillment == [][C6_ShortInv' /\ Rank' < Rank]_vars

C6_Witness ==
    /\ pc = "returned" /\ Len(niches) = 1 /\ Target(niches[1]) = 2
    /\ Len(results_by_niche[niches[1]]) = 1
    /\ offered # {}

\* The tool call handled last, when it was a setLeadCriteria that was saved.
LastSet ==
    /\ hpc \in {"loop", "done"} /\ calls # <<>>
    /\ tool_name(calls[Len(calls)]) = "setLeadCriteria"
    /\ results[Len(results)].status = "saved"

\* The criteria stored before the last call.
PriorCriteria ==
    get_criteria(IF Len(snaps) > 1 THEN snaps[Len(snaps) - 1].criteria ELSE <<>>)

\* C7: after setLeadCriteria the single stored record holds the supplied
\* value of every supplied field and the prior value of every other field.
C7_SetMergesParams ==
    LastSet =>
        LET params == tool_params(calls[Len(calls)]).val
            stored == get_criteria(criteriaTable)
        IN /\ Len(criteriaTable) = 1
           /\ \A k \in DOMAIN params : stored[k] = params[k]
           /\ \A k \in DOMAIN PriorCriteria \ DOMAIN params : stored[k] = PriorCriteria[k]

\* The stores before call i.
StoresBefore(i) == IF i = 1 THEN Stores(<<>>, <<>>) ELSE snaps[i - 1]

C9_Rotation ==
    \A i \in DOMAIN rlog :
        LET N == Len(rseeds)
            k == (rday + i - 1) % N
        IN /\ Len(rlog[i]) = N
           /\ \A j \in 1..N : rlog[i][j] = rseeds[((j - 1 + k) % N) + 1]
           /\ (i + N) \in DOMAIN rlog => rlog[i + N] = rlog[i]
           /\ (i + N - 1) \in DOMAIN rlog =>
                 {rlog[i + d][1] : d \in 0..(N - 1)} = Range(rseeds)

C9_Witness ==
    /\ Len(rseeds) >= 3
    /\ Len(rlog) = 2 * Len(rseeds) + 1
    /\ rlog[1] # rseeds
    /\ rlog[1 + Len(rseeds)] = rlog[1]

\* A keyword occurs in the text score_lead reads from a candidate.
Occurs(kw, lead) == Truthy(kw) /\ IsSubstring(Lower(kw), LeadText(lead))

\* The added text matches a keyword of the list.
AddedMatches(kws) ==
    \E i \in DOMAIN kws : Truthy(kws[i]) /\ IsSubstring(Lower(kws[i]), Lower(sadded))

GoodKeywords == GetOr(scrit, "mustHave", <<>>) \o GetOr(scrit, "prioritySignals", <<>>)
AvoidKeywords == GetOr(scrit, "avoid", <<>>)

\* No keyword of the list occurs after the addition that did not before.
NoneNew(kws) == \A i \in DOMAIN kws : Occurs(kws[i], slead) => Occurs(kws[i], sbefore)

\* Every keyword of the list that occurred before the addition still does.
NoneLost(kws) == \A i \in DOMAIN kws : Occurs(kws[i], sbefore) => Occurs(kws[i], slead)

\* C10 as stated: a text that matches a must-have or priority keyword never
\* lowers the score, a text that matches an avoid keyword never raises it.
C10_Monotone ==
    sadded # None =>
        /\ AddedMatches(GoodKeywords) => slead.score >= sbefore.score
        /\ AddedMatches(AvoidKeywords) => slead.score <= sbefore.score

\* C10, amended: a text that matches a must-have or priority keyword never
\* lowers the score when it makes no avoid keyword newly occur and no
\* must-have or priority keyword stop occurring; a text that matches an avoid
\* keyword never raises the score when it makes no must-have or priority
\* keyword newly occur and no avoid keyword stop occurring.
C10_MonotoneOtherwiseUnchanged ==
    sadded # None =>
        /\ (AddedMatches(GoodKeywords) /\ NoneNew(AvoidKeywords) /\ NoneLost(GoodKeywords))
              => slead.score >= sbefore.score
        /\ (AddedMatches(AvoidKeywords) /\ NoneNew(GoodKeywords) /\ NoneLost(AvoidKeywords))
              => slead.score <= sbefore.score

C10_Witness ==
    /\ sadded # None
    /\ AddedMatches(GoodKeywords) /\ NoneNew(AvoidKeywords) /\ NoneLost(GoodKeywords)
    /\ GetOr(scrit, "mustHave", <<>>) # <<>>
    /\ slead.score > sbefore.score

====
